---------------------------- MODULE Spec2Model ----------------------------
(***************************************************************************)
(* A model of chatter, a single-threaded IRC client: the buffer store      *)
(* (buffer.c), the session engine (irc.c), the slash-command interpreter   *)
(* (commands.c) and the event loop with its input dispatcher (tui.c).      *)
(*                                                                         *)
(* C strings are TLA+ strings; a byte is a string of length one.  Inbound  *)
(* bytes are NUL-free (RFC 2812 forbids NUL in a message) and every line   *)
(* of the model is shorter than the fixed formatting buffers of the code   *)
(* (512 bytes and MAX_MSG_LEN), whose truncation snprintf models.          *)
(* Allocation (malloc, realloc, strdup) always succeeds.                   *)
(***************************************************************************)
EXTENDS Integers, Sequences, FiniteSets, TLC

VARIABLES
    buffers,        \* the circular list from buffer_list_head, in next-order
    active_buffer,  \* index into buffers of active_buffer (0: NULL)
    state,          \* irc->state
    recv_buffer,    \* irc->recv_buffer[0 .. recv_buffer_len)
    nickname,       \* irc->nickname
    channel,        \* irc->channel
    out,            \* the data of every write the transport accepted, in order
    input_buffer,   \* tui_run's input_buffer
    running,        \* the global running flag
    term,           \* the terminal's size, [height, width]
    link,           \* the transport: "up"; "closing" (writes fail, bytes the
                    \* peer sent before can still be read); "down" (reads fail too)
    pc,             \* where main() is: "start", "loop" or "exited"
    pass,           \* history: the lines the last irc_process_buffer consumed
    accum,          \* history: recv_buffer as that pass found it
    fed,            \* history: every byte irc_recv has stored
    decoded,        \* history: every line irc_process_buffer has consumed
    origin,         \* history: the session as it was before the first byte
    steps,          \* history: how many inputs the environment has produced
    eof,            \* history: a read has returned <= 0
    failed,         \* history: how many writes have returned < 0
    entered,        \* history: the last command line entered, and its effect
    routed,         \* history: the store around each line of the last pass
    paged,          \* history: the last page key, and the buffer around it
    resources       \* what the Irc struct holds (socket, TLS session, ...),
                    \* and the releases made so far, in order

vars == << buffers, active_buffer, state, recv_buffer, nickname, channel, out,
           input_buffer, running, term, link, pc, pass, accum, fed, decoded,
           origin, steps, eof, failed, entered, routed, paged, resources >>

-----------------------------------------------------------------------------
(* Bounds of the model.                                                    *)

\* Inputs (received chunks and entered lines) the environment produces.
MaxSteps == 3

\* Chunks fed to the engine in the framing specification.
MaxChunks == 4

-----------------------------------------------------------------------------
(* C string primitives.                                                    *)

CRLF == "\r\n"

At(s, i) == SubSeq(s, i, i)

Take(s, n) == SubSeq(s, 1, IF n < Len(s) THEN n ELSE Len(s))

Drop(s, n) == SubSeq(s, n + 1, Len(s))

MinOf(S) == CHOOSE i \in S : \A j \in S : i <= j

\* strchr: the index of the first c in s, 0 for NULL.
strchr(s, c) ==
    LET I == { i \in 1..Len(s) : At(s, i) = c }
    IN  IF I = {} THEN 0 ELSE MinOf(I)

\* strstr: the index where the first occurrence of sub in s starts, 0 for NULL.
strstr(s, sub) ==
    LET n == Len(sub)
        I == { i \in 1..(Len(s) - n + 1) : SubSeq(s, i, i + n - 1) = sub }
    IN  IF I = {} THEN 0 ELSE MinOf(I)

\* strncmp(s, p, Len(p)) == 0
HasPrefix(s, p) == Len(s) >= Len(p) /\ SubSeq(s, 1, Len(p)) = p

\* snprintf(buf, size, ...): at most size - 1 bytes of the formatted text.
snprintf(size, text) == Take(text, size - 1)

isspace(c) == c \in {" ", "\t", "\n", "\r", "\f"}

\* while (*p == ' ') p++;
RECURSIVE SkipSpaces(_)
SkipSpaces(s) == IF Len(s) > 0 /\ At(s, 1) = " " THEN SkipSpaces(Drop(s, 1)) ELSE s

\* while (isspace(*target)) target++;
RECURSIVE SkipWhite(_)
SkipWhite(s) == IF Len(s) > 0 /\ isspace(At(s, 1)) THEN SkipWhite(Drop(s, 1)) ELSE s

\* end = target + strlen - 1; while (end > target && isspace(*end)) end--; end[1] = 0
RECURSIVE TrimRight(_)
TrimRight(s) ==
    IF Len(s) > 1 /\ isspace(At(s, Len(s))) THEN TrimRight(Take(s, Len(s) - 1)) ELSE s

\* if (excl = strchr(nick, '!')) *excl = '\0';
CutAtExcl(s) == IF strchr(s, "!") > 0 THEN Take(s, strchr(s, "!") - 1) ELSE s

-----------------------------------------------------------------------------
(* buffer.c: the buffer store.  A buffer_node_t is a record; the circular  *)
(* doubly linked list is the sequence of its nodes from buffer_list_head,  *)
(* so that next of node i is node i % n + 1 and prev the converse.         *)

BUFFER_LIST_WIDTH == 16

get_chatter_version == "0.1.0"

create_buffer(name) ==
    [ name |-> name, lines |-> << >>, active |-> 0,
      scroll_offset |-> 0, at_bottom |-> TRUE ]

add_buffer(bufs, buffer) == Append(bufs, buffer)

\* NextOf with a fault: the tail's next pointer is not closed onto the head.
NextOf_open(bufs, i) == IF i = Len(bufs) THEN i ELSE i + 1

NextOf(bufs, i) == (i % Len(bufs)) + 1

PrevOf(bufs, i) == IF i = 1 THEN Len(bufs) ELSE i - 1

\* AppendOffset with a fault: the offset follows every append.
AppendOffset_always(b, line_count) ==
    IF line_count > 0 THEN line_count - 1 ELSE b.scroll_offset

\* The offset an append leaves: the last line's index while at the bottom.
AppendOffset(b, line_count) ==
    IF b.at_bottom /\ line_count > 0 THEN line_count - 1 ELSE b.scroll_offset

\* buffer_append_message(buffer, message), buffer given by its index (0: NULL).
buffer_append_message(bufs, i, message) ==
    IF i = 0 THEN bufs
    ELSE LET b  == bufs[i]
             ls == Append(b.lines, message)
         IN  [bufs EXCEPT ![i] = [b EXCEPT !.lines = ls,
                                            !.scroll_offset = AppendOffset(b, Len(ls))]]

\* strcmp(current->name, name) == 0
SameName(a, b) == a = b

\* get_buffer_by_name: the first node from the head with that name, 0 for NULL.
get_buffer_by_name(bufs, name) ==
    LET I == { i \in 1..Len(bufs) : SameName(bufs[i].name, name) }
    IN  IF I = {} THEN 0 ELSE MinOf(I)

\* ActiveFlags with a fault: the node that was active keeps its flag.
ActiveFlags_keepOld(bufs, old, new) ==
    [ i \in 1..Len(bufs) |->
        [bufs[i] EXCEPT !.active = IF i = new THEN 1 ELSE @] ]

\* The active flags after set_active_buffer(buffer): the old node's is cleared.
ActiveFlags(bufs, old, new) ==
    [ i \in 1..Len(bufs) |->
        [bufs[i] EXCEPT !.active = IF i = new THEN 1
                                   ELSE IF i = old THEN 0 ELSE @] ]

\* set_active_buffer(buffer) on the session record s.
set_active_buffer(s, i) ==
    IF i = 0 THEN s
    ELSE [s EXCEPT !.buffers = ActiveFlags(s.buffers, s.active_buffer, i),
                   !.active_buffer = i]

\* The sequence without its i-th node.
Unlink(bufs, i) == SubSeq(bufs, 1, i - 1) \o SubSeq(bufs, i + 1, Len(bufs))

\* remove_buffer(buffer): declared in buffer.h and called by /part, defined in
\* no file of the repository.  After the specification: the "status" buffer is
\* reserved; any other node is unlinked and freed, and when it was the active
\* one the selection moves to a neighbour (nb chooses which: the specification
\* names none).
remove_buffer(s, i, nb) ==
    IF i = 0 \/ s.buffers[i].name = "status" THEN s
    ELSE LET neighbour == IF nb = "prev" THEN PrevOf(s.buffers, i)
                          ELSE NextOf(s.buffers, i)
             moved     == IF s.active_buffer = i
                          THEN set_active_buffer(s, neighbour) ELSE s
             a         == moved.active_buffer
         IN  [moved EXCEPT !.buffers = Unlink(moved.buffers, i),
                           !.active_buffer = IF a > i THEN a - 1 ELSE a]

\* buffer_list_init with a fault: the first buffer is created as "Status".
buffer_list_init_misnamed ==
    set_active_buffer([ buffers |-> add_buffer(<< >>, create_buffer("Status")),
                        active_buffer |-> 0 ], 1)

\* buffer_list_init: the "status" buffer, active, holding the version line.
buffer_list_init ==
    LET s0 == [ buffers |-> add_buffer(<< >>, create_buffer("status")),
                active_buffer |-> 0 ]
        s1 == set_active_buffer(s0, 1)
    IN  [s1 EXCEPT !.buffers =
            buffer_append_message(@, 1, snprintf(64, "chatter v" \o get_chatter_version))]

-----------------------------------------------------------------------------
(* irc.c: the session engine.  The operators below act on a session record *)
(* s: the fields buffers, active_buffer, state, recv_buffer, out, running, *)
(* input_buffer of the program, needs_refresh of tui_run, and the history  *)
(* fields pass, accum, fed and decoded.                                    *)

\* main(): the identity handed to irc_connect when no option changes it.
DefaultNick == "chatter_user"

DefaultChannel == "#chatter"

username == "chatter_user"

realname == "chatter_user"

PONG_BUF_SIZE == 512

JOIN_BUF_SIZE == 512

COMMAND_BUF_SIZE == 16

\* irc_send(irc, data): the echo "-> data", cut at its CRLF, goes to "status";
\* then the data is written.  A write on a transport that is down fails (< 0)
\* and nothing reaches the peer.
SendEcho(data) ==
    LET formatted_msg == "-> " \o data
        newline       == strstr(formatted_msg, CRLF)
    IN  IF newline > 0 THEN Take(formatted_msg, newline - 1) ELSE formatted_msg

irc_send(s, data) ==
    LET status_buf == get_buffer_by_name(s.buffers, "status")
    IN  [s EXCEPT !.buffers = buffer_append_message(@, status_buf, SendEcho(data)),
                  !.out = IF link = "up" THEN Append(@, data) ELSE @,
                  !.failed = IF link = "up" THEN @ ELSE @ + 1]

\* strncmp(parse_line, "PING :", 6) == 0
IsPingLine(parse_line) == HasPrefix(parse_line, "PING :")

\* PongReply with a fault: the format lacks the colon of the trailing parameter.
PongReply_bare(parse_line) ==
    snprintf(PONG_BUF_SIZE, "PONG " \o Drop(parse_line, 6) \o CRLF)

\* snprintf(pong_buf, sizeof(pong_buf), "PONG :%s\r\n", parse_line + 6)
PongReply(parse_line) ==
    snprintf(PONG_BUF_SIZE, "PONG :" \o Drop(parse_line, 6) \o CRLF)

\* The prefix, command and parameters of a line, as irc_process_buffer finds
\* them.  ok is FALSE where the code gives the line up (continue): a prefix
\* with no space after it, or no command.  has_prefix, has_params: the
\* pointers prefix, params are not NULL.
ParseLine(parse_line) ==
    LET colon      == Len(parse_line) > 0 /\ At(parse_line, 1) = ":"
        p          == Drop(parse_line, 1)
        sp         == strchr(p, " ")
        cmd_start  == IF colon THEN SkipSpaces(Drop(p, sp)) ELSE SkipSpaces(parse_line)
        sc         == strchr(cmd_start, " ")
        command    == IF sc > 0 THEN Take(cmd_start, sc - 1) ELSE cmd_start
    IN  [ ok         |-> ~(colon /\ sp = 0) /\ Len(cmd_start) > 0,
          has_prefix |-> colon,
          prefix     |-> IF colon /\ sp > 0 THEN Take(p, sp - 1) ELSE "",
          command    |-> snprintf(COMMAND_BUF_SIZE, command),
          has_params |-> sc > 0,
          params     |-> IF sc > 0 THEN Drop(cmd_start, sc) ELSE "" ]

\* IsWelcome with a fault: the end of the MOTD (376) is not taken for a welcome.
IsWelcome_only001(command) == command = "001"

\* strcmp(command, "001") == 0 || strcmp(command, "376") == 0
IsWelcome(command) == command \in {"001", "376"}

\* RegistrationStep with a fault: the welcome is taken in every state.
RegistrationStep_anyState(s, command) ==
    IF IsWelcome(command)
    THEN [irc_send(s, snprintf(JOIN_BUF_SIZE, "JOIN " \o channel \o CRLF))
             EXCEPT !.state = "REGISTERED"]
    ELSE s

\* The registration step of a line: in REGISTERING, a welcome numeric sends
\* JOIN <channel> and registers (whatever irc_send returns).
RegistrationStep(s, command) ==
    IF s.state = "REGISTERING" /\ IsWelcome(command)
    THEN [irc_send(s, snprintf(JOIN_BUF_SIZE, "JOIN " \o channel \o CRLF))
             EXCEPT !.state = "REGISTERED"]
    ELSE s

\* FindOrCreate with a fault: a buffer that is created is selected as well.
FindOrCreate_selects(s, name) ==
    IF get_buffer_by_name(s.buffers, name) # 0 THEN s
    ELSE set_active_buffer([s EXCEPT !.buffers = add_buffer(@, create_buffer(name))],
                           Len(s.buffers) + 1)

\* get_buffer_by_name(name), and create_buffer + add_buffer when it is NULL:
\* the session with the buffer, and the buffer's index.
FindOrCreate(s, name) ==
    IF get_buffer_by_name(s.buffers, name) # 0 THEN s
    ELSE [s EXCEPT !.buffers = add_buffer(@, create_buffer(name))]

\* target[0] == '#'
IsChannelTarget(target) == Len(target) > 0 /\ At(target, 1) = "#"

\* Appending to a buffer, with needs_refresh set when it is the active one.
AppendShown(s, i, message) ==
    IF i = 0 THEN s
    ELSE [s EXCEPT !.buffers = buffer_append_message(@, i, message),
                   !.needs_refresh = IF i = s.active_buffer THEN TRUE ELSE @]

\* The PRIVMSG branch.
RoutePrivmsg(s, m, status_buf) ==
    LET message_start == strchr(m.params, ":")
        target  == TrimRight(SkipWhite(Take(m.params, message_start - 1)))
        message == Drop(m.params, message_start)
        sender  == CutAtExcl(m.prefix)
        s1      == IF IsChannelTarget(target) THEN FindOrCreate(s, target)
                   ELSE IF target = nickname /\ m.has_prefix THEN FindOrCreate(s, sender)
                   ELSE s
        target_buffer ==
                   IF IsChannelTarget(target) THEN get_buffer_by_name(s1.buffers, target)
                   ELSE IF target = nickname
                        THEN (IF m.has_prefix THEN get_buffer_by_name(s1.buffers, sender)
                              ELSE 0)
                   ELSE get_buffer_by_name(s1.buffers, "status")
        formatted_msg == IF m.has_prefix THEN "<" \o sender \o "> " \o message
                         ELSE message
    IN  IF message_start = 0 THEN s
        ELSE IF target_buffer # 0 /\ target_buffer # status_buf
             THEN AppendShown(s1, target_buffer, formatted_msg)
             ELSE s1

\* The JOIN branch.
RouteJoin(s, m) ==
    LET joined_channel_param ==
            IF Len(m.params) > 0 /\ At(m.params, 1) = ":" THEN Drop(m.params, 1)
            ELSE m.params
        sender_nick == CutAtExcl(m.prefix)
        absent == get_buffer_by_name(s.buffers, joined_channel_param) = 0
        s1 == IF sender_nick = nickname /\ absent
              THEN LET c == FindOrCreate(s, joined_channel_param)
                   IN  set_active_buffer(c, Len(c.buffers))
              ELSE s
        channel_buffer == get_buffer_by_name(s1.buffers, joined_channel_param)
    IN  IF ~m.has_prefix THEN s
        ELSE AppendShown(s1, channel_buffer,
                         sender_nick \o " has joined " \o joined_channel_param)

\* The NOTICE branch.
RouteNotice(s, m) ==
    AppendShown(s, get_buffer_by_name(s.buffers, "status"), "-!- " \o m.params)

\* Route with a fault: the last branch takes every command that has
\* parameters, not NOTICE alone.
Route_anyAsNotice(s, m, status_buf) ==
    IF m.command = "PRIVMSG" /\ m.has_params THEN RoutePrivmsg(s, m, status_buf)
    ELSE IF m.command = "JOIN" /\ m.has_params THEN RouteJoin(s, m)
    ELSE IF m.has_params THEN RouteNotice(s, m)
    ELSE s

\* The classification of a parsed line.
Route(s, m, status_buf) ==
    IF m.command = "PRIVMSG" /\ m.has_params THEN RoutePrivmsg(s, m, status_buf)
    ELSE IF m.command = "JOIN" /\ m.has_params THEN RouteJoin(s, m)
    ELSE IF m.command = "NOTICE" /\ m.has_params THEN RouteNotice(s, m)
    ELSE s

\* LineEffect with a fault: the raw line is not appended to "status".
LineEffect_noRaw(s, parse_line) ==
    LET status_buf == get_buffer_by_name(s.buffers, "status")
        m  == ParseLine(parse_line)
    IN  IF IsPingLine(parse_line) THEN irc_send(s, PongReply(parse_line))
        ELSE IF ~m.ok THEN s
        ELSE Route(RegistrationStep(s, m.command), m, status_buf)

\* The body of irc_process_buffer's loop for one line, without the history.
LineEffect(s, parse_line) ==
    LET status_buf == get_buffer_by_name(s.buffers, "status")
        s1 == AppendShown(s, status_buf, parse_line)
        m  == ParseLine(parse_line)
    IN  IF IsPingLine(parse_line) THEN irc_send(s1, PongReply(parse_line))
        ELSE IF ~m.ok THEN s1
        ELSE Route(RegistrationStep(s1, m.command), m, status_buf)

\* One line of the loop, recorded in pass: the line, how many writes the
\* transport had taken before it, the writes it caused, the state around it;
\* and in trace: the buffer store and the selection before and after it.
ProcessLine(s, parse_line) ==
    LET t == LineEffect(s, parse_line)
    IN  [t EXCEPT !.decoded = Append(@, parse_line),
                  !.pass = Append(@, [ line   |-> parse_line,
                                       at     |-> Len(s.out),
                                       sent   |-> SubSeq(t.out, Len(s.out) + 1, Len(t.out)),
                                       before |-> s.state,
                                       after  |-> t.state ]),
                  !.trace = Append(@, [ line          |-> parse_line,
                                        store_before  |-> s.buffers,
                                        store_after   |-> t.buffers,
                                        active_before |-> s.active_buffer,
                                        active_after  |-> t.active_buffer ])]

\* NextLinePos with a fault: only the CR of the terminator is stepped over.
NextLinePos_short(pos, line_end) == pos + (line_end - 1) + 1

\* Residual with a fault: recv_buffer_len = 0, the unfinished line is dropped.
Residual_none(buf, pos) == ""

\* LineEnd with a fault: strstr(current_pos, "\n"), a lone LF ends a line.
LineEnd_lf(current) == strstr(current, "\n")

\* line_end = strstr(current_pos, "\r\n"): its index in what follows
\* current_pos, 0 for NULL.
LineEnd(current) == strstr(current, CRLF)

\* current_pos = line_end + 2, as offsets into recv_buffer: the line starts
\* at offset pos and its CRLF at index line_end of what follows pos.
NextLinePos(pos, line_end) == pos + (line_end - 1) + 2

\* memmove(recv_buffer, current_pos, remaining_len); recv_buffer_len = remaining_len
Residual(buf, pos) == Drop(buf, pos)

\* ProcessFrom with a fault: if for while, a pass takes one line at most.
ProcessFrom_oneLine(s, pos) ==
    LET current  == Drop(s.recv_buffer, pos)
        line_end == LineEnd(current)
    IN  IF line_end = 0
        THEN [s EXCEPT !.recv_buffer = Residual(@, pos)]
        ELSE [ProcessLine(s, Take(current, line_end - 1)) EXCEPT
                  !.recv_buffer = Residual(@, NextLinePos(pos, line_end))]

\* ProcessFrom with a fault: a line the parser gives up ends the pass (break
\* for continue); the lines behind it stay in recv_buffer.
RECURSIVE ProcessFrom_breaks(_, _)
ProcessFrom_breaks(s, pos) ==
    LET current  == Drop(s.recv_buffer, pos)
        line_end == LineEnd(current)
        line     == Take(current, line_end - 1)
    IN  IF line_end = 0
        THEN [s EXCEPT !.recv_buffer = Residual(@, pos)]
        ELSE IF ~IsPingLine(line) /\ ~ParseLine(line).ok
        THEN [ProcessLine(s, line) EXCEPT
                  !.recv_buffer = Residual(@, NextLinePos(pos, line_end))]
        ELSE ProcessFrom_breaks(ProcessLine(s, line), NextLinePos(pos, line_end))

\* while ((line_end = strstr(current_pos, "\r\n")) != NULL) { ... }
RECURSIVE ProcessFrom(_, _)
ProcessFrom(s, pos) ==
    LET current  == Drop(s.recv_buffer, pos)
        line_end == LineEnd(current)
    IN  IF line_end = 0
        THEN [s EXCEPT !.recv_buffer = Residual(@, pos)]
        ELSE ProcessFrom(ProcessLine(s, Take(current, line_end - 1)),
                         NextLinePos(pos, line_end))

\* irc_process_buffer(irc, &needs_refresh, ...)
irc_process_buffer(s) ==
    ProcessFrom([s EXCEPT !.needs_refresh = FALSE, !.pass = << >>,
                          !.trace = << >>, !.accum = s.recv_buffer], 0)

\* irc_recv(irc) when the read returned the bytes of chunk (> 0): they are
\* stored behind the residue (the buffer grows by doubling, so they fit).
irc_recv(s, chunk) == [s EXCEPT !.recv_buffer = @ \o chunk, !.fed = @ \o chunk]

-----------------------------------------------------------------------------
(* commands.c: the slash-command interpreter.                              *)

MAX_ARGS == 15

\* strtok_r(rest, " ", &rest) until NULL: the tokens of a string.
RECURSIVE Tokens(_)
Tokens(str) ==
    LET r  == SkipSpaces(str)
        sp == strchr(r, " ")
    IN  IF Len(r) = 0 THEN << >>
        ELSE IF sp = 0 THEN << r >>
        ELSE << Take(r, sp - 1) >> \o Tokens(Drop(r, sp))

\* args[from], args[from + 1], ... joined by single spaces.
RECURSIVE JoinArgs(_, _)
JoinArgs(args, from) ==
    IF from > Len(args) THEN ""
    ELSE IF from = Len(args) THEN args[from]
    ELSE args[from] \o " " \o JoinArgs(args, from + 1)

ActiveName(s) ==
    IF s.active_buffer = 0 THEN "" ELSE s.buffers[s.active_buffer].name

\* active_buffer && active_buffer->name[0] == '#'
ActiveIsChannel(s) == Len(ActiveName(s)) > 0 /\ At(ActiveName(s), 1) = "#"

StatusAppend(s, message) ==
    [s EXCEPT !.buffers =
        buffer_append_message(@, get_buffer_by_name(s.buffers, "status"), message)]

\* handle_join_command
handle_join_command(s, args) ==
    IF Len(args) = 0 THEN s
    ELSE irc_send(s, "JOIN " \o args[1] \o CRLF)

\* args[0] && get_buffer_by_name(args[0]) != NULL
FirstArgIsChannel(s, args) ==
    Len(args) > 0 /\ get_buffer_by_name(s.buffers, args[1]) # 0

\* handle_part_command; nb is remove_buffer's choice of neighbour.
handle_part_command(s, args, nb) ==
    LET named   == FirstArgIsChannel(s, args)
        channel_to_part == IF named THEN args[1] ELSE ActiveName(s)
        part_message    == IF named THEN JoinArgs(args, 2) ELSE JoinArgs(args, 1)
        sent    == irc_send(s, "PART " \o channel_to_part \o " :" \o part_message \o CRLF)
        logged  == StatusAppend(sent, "--> PART " \o channel_to_part
                                          \o " (" \o part_message \o ")")
    IN  IF named \/ ActiveIsChannel(s)
        THEN remove_buffer(logged, get_buffer_by_name(logged.buffers, channel_to_part), nb)
        ELSE IF Len(args) = 0
             THEN StatusAppend(s, "Usage: /part [#channel] [message]")
             ELSE StatusAppend(s, "Invalid channel: " \o args[1])

\* handle_nick
handle_nick(s, args) ==
    IF Len(args) = 0 THEN StatusAppend(s, "Usage: /nick <new_nickname>")
    ELSE irc_send(s, "NICK " \o args[1] \o CRLF)

\* The "//" branch of parse_command: the text after the first slash is sent.
EscapedSlash(s, text) ==
    IF ActiveIsChannel(s)
    THEN [irc_send(s, "PRIVMSG " \o ActiveName(s) \o " :" \o text \o CRLF)
             EXCEPT !.buffers = buffer_append_message(@, s.active_buffer,
                                    "<" \o nickname \o "> " \o text)]
    ELSE [irc_send(s, text \o CRLF)
             EXCEPT !.buffers = buffer_append_message(@, s.active_buffer, text)]

\* Dispatch with a fault: a command that is not in the table is sent as it is.
Dispatch_forwardsUnknown(s, command_name, args, nb) ==
    IF command_name = "join" THEN handle_join_command(s, args)
    ELSE IF command_name = "part" THEN handle_part_command(s, args, nb)
    ELSE IF command_name = "nick" THEN handle_nick(s, args)
    ELSE irc_send(s, command_name \o CRLF)

\* strcmp(command_name, command_defs[i].name) == 0, over the table.
Dispatch(s, command_name, args, nb) ==
    IF command_name = "join" THEN handle_join_command(s, args)
    ELSE IF command_name = "part" THEN handle_part_command(s, args, nb)
    ELSE IF command_name = "nick" THEN handle_nick(s, args)
    ELSE StatusAppend(s, "Unknown command: /" \o command_name)

\* parse_command(irc, input, active_buffer)
parse_command(s, input, nb) ==
    LET tokens == Tokens(Drop(input, 1))
        rest   == Tail(tokens)
        args   == SubSeq(rest, 1, IF Len(rest) < MAX_ARGS THEN Len(rest) ELSE MAX_ARGS)
    IN  IF Len(input) = 0 \/ At(input, 1) # "/" THEN s
        ELSE IF Len(input) > 1 /\ At(input, 2) = "/" THEN EscapedSlash(s, Drop(input, 1))
        ELSE IF Len(tokens) = 0 THEN s
        ELSE Dispatch(s, tokens[1], args, nb)

-----------------------------------------------------------------------------
(* tui.c: the windows' geometry, the input dispatcher and the event loop.  *)

INPUT_BUFFER_SIZE == 400

\* getmaxy(main_buffer_win), getmaxx(main_buffer_win): tui_draw_layout.
WinHeight == term.height - 2

WinWidth == term.width - BUFFER_LIST_WIDTH

\* text_width = width - 2, of the pad and of the window alike.
TextWidth == WinWidth - 2

\* (msg_len + text_width - 1) / text_width, summed over the lines.
RECURSIVE TotalDisplayLines(_, _)
TotalDisplayLines(lines, n) ==
    IF n = 0 THEN 0
    ELSE TotalDisplayLines(lines, n - 1)
             + ((Len(lines[n]) + TextWidth - 1) \div TextWidth)

\* max_scroll = total > view ? total - view : 0, with view = win_height - 2.
MaxScroll(b) ==
    LET total == TotalDisplayLines(b.lines, Len(b.lines))
        view  == WinHeight - 2
    IN  IF total > view THEN total - view ELSE 0

\* if (x > max_scroll) x = max_scroll; if (x < 0) x = 0;
Clamp(x, max_scroll) ==
    LET y == IF x > max_scroll THEN max_scroll ELSE x
    IN  IF y < 0 THEN 0 ELSE y

\* tui_refresh_main_buffer: what it changes is the active buffer's offset.
tui_refresh_main_buffer(s) ==
    IF s.active_buffer = 0 \/ TextWidth < 1 THEN s
    ELSE [s EXCEPT !.buffers[s.active_buffer].scroll_offset =
                        Clamp(@, MaxScroll(s.buffers[s.active_buffer]))]

\* handle_scroll with a fault: at_bottom = (scroll_offset == 0).
handle_scroll_bottomAtZero(s, page_size) ==
    LET b          == s.buffers[s.active_buffer]
        max_scroll == MaxScroll(b)
        offset     == Clamp(b.scroll_offset + page_size, max_scroll)
    IN  IF TextWidth <= 0 THEN s
        ELSE tui_refresh_main_buffer(
                 [s EXCEPT !.buffers[s.active_buffer] =
                     [b EXCEPT !.scroll_offset = offset,
                               !.at_bottom = (offset = 0)]])

\* handle_scroll(page_size)
handle_scroll(s, page_size) ==
    LET b          == s.buffers[s.active_buffer]
        max_scroll == MaxScroll(b)
        offset     == Clamp(b.scroll_offset + page_size, max_scroll)
    IN  IF TextWidth <= 0 THEN s
        ELSE tui_refresh_main_buffer(
                 [s EXCEPT !.buffers[s.active_buffer] =
                     [b EXCEPT !.scroll_offset = offset,
                               !.at_bottom = (offset = max_scroll)]])

\* The keys getch() delivers: a printable byte is itself; the others by name.
SpecialKeys ==
    { "ENTER", "BACKSPACE", "PPAGE", "NPAGE", "SPPAGE", "SNPAGE",
      "ALT_j", "ALT_k", "ALT_x", "CTRL_C", "OTHER" }

isprint(ch) == Len(ch) = 1

\* EnterKey with a fault: the input buffer is not cleared.
EnterKey_keepsInput(s, nb) ==
    LET text == s.input_buffer
    IN  IF text = "/quit" THEN [s EXCEPT !.running = FALSE]
        ELSE IF Len(text) > 0 /\ At(text, 1) = "/" THEN parse_command(s, text, nb)
        ELSE IF Len(text) = 0 \/ s.active_buffer = 0 THEN s
        ELSE IF ActiveName(s) = "status" THEN irc_send(s, text \o CRLF)
        ELSE [irc_send(s, "PRIVMSG " \o ActiveName(s) \o " :" \o text \o CRLF)
                 EXCEPT !.buffers = buffer_append_message(@, s.active_buffer,
                                        "<" \o nickname \o "> " \o text)]

\* The Enter branch of tui_handle_input.
EnterKey(s, nb) ==
    LET text == s.input_buffer
        done ==
            IF text = "/quit" THEN [s EXCEPT !.running = FALSE]
            ELSE IF Len(text) > 0 /\ At(text, 1) = "/" THEN parse_command(s, text, nb)
            ELSE IF Len(text) = 0 \/ s.active_buffer = 0 THEN s
            ELSE IF ActiveName(s) = "status" THEN irc_send(s, text \o CRLF)
            ELSE [irc_send(s, "PRIVMSG " \o ActiveName(s) \o " :" \o text \o CRLF)
                     EXCEPT !.buffers = buffer_append_message(@, s.active_buffer,
                                            "<" \o nickname \o "> " \o text)]
    IN  [done EXCEPT !.input_buffer = ""]

\* tui_handle_input(ch, ...)
tui_handle_input(s, ch, nb) ==
    LET r == [s EXCEPT !.needs_refresh = TRUE]
    IN  CASE ch = "ENTER"     -> EnterKey(r, nb)
          [] ch = "BACKSPACE" ->
                 IF Len(r.input_buffer) > 0
                 THEN [r EXCEPT !.input_buffer = Take(@, Len(@) - 1)] ELSE r
          [] ch = "PPAGE"     -> handle_scroll(r, -((WinHeight - 2) \div 2))
          [] ch = "NPAGE"     -> handle_scroll(r, (WinHeight - 2) \div 2)
          [] ch = "SPPAGE"    -> handle_scroll(r, -(WinHeight - 2))
          [] ch = "SNPAGE"    -> handle_scroll(r, WinHeight - 2)
          [] ch = "ALT_j"     -> set_active_buffer(r, NextOf(r.buffers, r.active_buffer))
          [] ch = "ALT_k"     -> set_active_buffer(r, PrevOf(r.buffers, r.active_buffer))
          [] ch = "ALT_x"     -> r
          [] isprint(ch)      ->
                 IF Len(r.input_buffer) < INPUT_BUFFER_SIZE - 1
                 THEN [r EXCEPT !.input_buffer = @ \o ch] ELSE r
          [] ch = "CTRL_C"    -> [r EXCEPT !.running = FALSE]
          [] OTHER            -> [r EXCEPT !.needs_refresh = FALSE]

\* The registration burst of tui_run's switch, in state CONNECTED.
RegistrationBurst(s) ==
    IF s.state = "CONNECTED"
    THEN [irc_send(irc_send(s, "NICK " \o nickname \o CRLF),
                   "USER " \o username \o " 0 * :" \o realname \o CRLF)
             EXCEPT !.state = "REGISTERING"]
    ELSE s

\* if (needs_refresh) tui_refresh_all(...)
RefreshIfNeeded(s) == IF s.needs_refresh THEN tui_refresh_main_buffer(s) ELSE s

\* SocketReady with a fault: after a failed read the loop is not told to stop.
SocketReady_keepsRunning(s, chunk) ==
    IF link = "down"
    THEN [s EXCEPT !.state = "DISCONNECTED", !.needs_refresh = FALSE, !.eof = TRUE]
    ELSE RegistrationBurst(irc_process_buffer(irc_recv(s, chunk)))

\* The socket half of one iteration: chunk is what the read returned.  With
\* the transport down the read returns <= 0, and the iteration ends at once
\* (continue) with the session disconnected and the loop told to stop.
SocketReady(s, chunk) ==
    IF link = "down"
    THEN [s EXCEPT !.state = "DISCONNECTED", !.running = FALSE,
                   !.needs_refresh = FALSE, !.eof = TRUE]
    ELSE RegistrationBurst(irc_process_buffer(irc_recv(s, chunk)))

\* One iteration of tui_run's loop after select() returned: key is the key
\* standard input holds ("" when it is not ready), sock tells whether the
\* socket is readable.
LoopBody(s, key, sock, chunk, nb) ==
    LET s0 == [s EXCEPT !.needs_refresh = FALSE]
        s1 == IF key = "" THEN s0 ELSE tui_handle_input(s0, key, nb)
        s2 == IF sock THEN SocketReady(s1, chunk) ELSE s1
    IN  RefreshIfNeeded(s2)

-----------------------------------------------------------------------------
(* The program as a state machine.                                         *)

\* The session record of the current state.
Session ==
    [ buffers |-> buffers, active_buffer |-> active_buffer, state |-> state,
      recv_buffer |-> recv_buffer, out |-> out, running |-> running,
      input_buffer |-> input_buffer, needs_refresh |-> FALSE,
      pass |-> pass, accum |-> accum, fed |-> fed, decoded |-> decoded,
      eof |-> eof, failed |-> failed, trace |-> << >> ]

\* The next state holds the session record s.
Install(s) ==
    /\ buffers' = s.buffers
    /\ active_buffer' = s.active_buffer
    /\ state' = s.state
    /\ recv_buffer' = s.recv_buffer
    /\ out' = s.out
    /\ running' = s.running
    /\ input_buffer' = s.input_buffer
    /\ pass' = s.pass
    /\ accum' = s.accum
    /\ fed' = s.fed
    /\ decoded' = s.decoded
    /\ eof' = s.eof
    /\ failed' = s.failed

\* No line has been entered yet.
NoLine ==
    [ text |-> "", sent |-> << >>, store_before |-> << >>, store_after |-> << >>,
      active_before |-> 0, active_after |-> 0,
      state_before |-> "DISCONNECTED", state_after |-> "DISCONNECTED",
      input_before |-> "", input_after |-> "" ]

\* No page key has been pressed yet.
NoPage == [ key |-> "", before |-> create_buffer(""), after |-> create_buffer("") ]

\* The terminal of the model: 24 rows of 80 columns.
TermSizes == { [height |-> 24, width |-> 80] }

\* What the server may send, cut as a read may return it.
ServerChunks ==
    { "PING :abc\r\n",
      ":irc.example PING :abc\r\n",
      "PING abc\r\n",
      ":irc.example 001 chatter_user :Welcome\r\n",
      "PING :x\r\n:irc.example 376 chatter_user :End\r\nPING :q\r\n",
      ":chatter_user!u@h JOIN #chatter\r\n",
      ":alice!a@h PRIVMSG #Chat :hello world\r\n",
      ":alice!a@h PRIVMSG #chat :hello world\r\n",
      ":bob!b@h PRIVMSG chatter_user :hi\r\n" }

\* What the user may type before Enter.
UserLines ==
    { "/part", "/part status", "/part bye bye", "/part bob", "/join #x",
      "//me waves", "hello" }

Neighbours == { "prev", "next" }

\* Nothing is held: irc_init has zeroed the struct.
NoResources == [ held |-> {}, released |-> << >> ]

\* irc_connect returns 0: the socket is connected, the receive buffer and the
\* five strings are allocated, the TLS context and session exist.
irc_connect_ok ==
    [ state     |-> "CONNECTED",
      resources |-> [ held |-> {"sock", "recv_buffer", "strings", "ctx", "ssl"},
                      released |-> << >> ] ]

\* irc_connect returns -1, with the state and the resources it leaves behind:
\* getaddrinfo or socket() failed; connect() failed (the socket stays open);
\* malloc failed (irc_connect closes the socket itself); SSL_CTX_new failed;
\* SSL_connect failed.
irc_connect_failures ==
    { [ state |-> "DISCONNECTED", resources |-> NoResources ],
      [ state |-> "DISCONNECTED",
        resources |-> [ held |-> {"sock"}, released |-> << >> ] ],
      [ state |-> "CONNECTING",
        resources |-> [ held |-> {}, released |-> << "close" >> ] ],
      [ state |-> "CONNECTING",
        resources |-> [ held |-> {"sock", "recv_buffer", "strings"},
                        released |-> << >> ] ],
      [ state |-> "CONNECTING",
        resources |-> [ held |-> {"sock", "recv_buffer", "strings", "ctx", "ssl"},
                        released |-> << >> ] ] }

\* irc_disconnect: what is held is released, in the order of the code.
irc_disconnect(r) ==
    [ held     |-> {},
      released |-> r.released
                   \o (IF "strings" \in r.held THEN << "free strings" >> ELSE << >>)
                   \o (IF "ssl" \in r.held THEN << "SSL_shutdown", "SSL_free" >> ELSE << >>)
                   \o (IF "ctx" \in r.held THEN << "SSL_CTX_free" >> ELSE << >>)
                   \o (IF "sock" \in r.held THEN << "close" >> ELSE << >>)
                   \o (IF "recv_buffer" \in r.held THEN << "free recv_buffer" >> ELSE << >>) ]

\* main() up to irc_connect: tui_init has made the buffer store.
Init ==
    /\ buffers = buffer_list_init.buffers
    /\ active_buffer = buffer_list_init.active_buffer
    /\ state = "DISCONNECTED"
    /\ recv_buffer = ""
    /\ nickname = DefaultNick
    /\ channel = DefaultChannel
    /\ out = << >>
    /\ input_buffer = ""
    /\ running = TRUE
    /\ term \in TermSizes
    /\ link = "up"
    /\ pc = "start"
    /\ pass = << >>
    /\ accum = ""
    /\ fed = ""
    /\ decoded = << >>
    /\ origin = [ out |-> << >> ]
    /\ steps = 0
    /\ eof = FALSE
    /\ failed = 0
    /\ entered = NoLine
    /\ routed = << >>
    /\ paged = NoPage
    /\ resources = NoResources

\* irc_connect returns 0; tui_run draws the screen and enters its loop.
Connect ==
    /\ pc = "start"
    /\ pc' = "loop"
    /\ Install(tui_refresh_main_buffer([Session EXCEPT !.state = irc_connect_ok.state]))
    /\ resources' = irc_connect_ok.resources
    /\ UNCHANGED << nickname, channel, term, link, origin, entered, routed, paged, steps >>

\* tui_destroy: every buffer is freed and buffer_list_head is NULL.
tui_destroy(s) == [s EXCEPT !.buffers = << >>]

\* irc_connect returns -1 (before or after the socket connected); main cleans
\* up and returns 1.
ConnectFails ==
    /\ pc = "start"
    /\ pc' = "exited"
    /\ \E failure \in irc_connect_failures :
           /\ Install(tui_destroy([Session EXCEPT !.state = failure.state]))
           /\ resources' = failure.resources
    /\ UNCHANGED << nickname, channel, term, link, origin, entered, routed, paged, steps >>

\* The keys the user presses between lines: navigation, paging, and Enter on
\* an empty input line.
NavKeys == { "ALT_j", "ALT_k", "PPAGE", "ENTER" }

\* An iteration in which only standard input is ready, holding a special key.
KeyIter ==
    /\ pc = "loop" /\ running
    /\ \E key \in NavKeys :
           \E nb \in (IF key = "ENTER" THEN Neighbours ELSE {"prev"}) :
               Install(LoopBody(Session, key, FALSE, "", nb))
    /\ UNCHANGED << nickname, channel, term, link, pc, origin, entered, routed, paged, resources, steps >>

\* The iterations that take the printable keys of text, one key each.
RECURSIVE TypeKeys(_, _, _)
TypeKeys(s, text, nb) ==
    IF Len(text) = 0 \/ ~s.running THEN s
    ELSE TypeKeys(LoopBody(s, Head(text), FALSE, "", nb), Tail(text), nb)

\* The user types a line and presses Enter: one iteration per key.
EnterLine ==
    /\ pc = "loop" /\ running
    /\ steps < MaxSteps
    /\ steps' = steps + 1
    /\ \E text \in UserLines :
           \E nb \in (IF HasPrefix(text, "/part") THEN Neighbours ELSE {"prev"}) :
               Install(LoopBody(TypeKeys(Session, text, nb), "ENTER", FALSE, "", nb))
    /\ UNCHANGED << nickname, channel, term, link, pc, origin, entered, routed, paged, resources >>

\* An iteration in which only the socket is readable: the server's next bytes,
\* or the end of the transport.
SockIter ==
    /\ pc = "loop" /\ running
    /\ IF link = "up"
       THEN /\ steps < MaxSteps
            /\ steps' = steps + 1
            /\ \E chunk \in ServerChunks :
                   Install(LoopBody(Session, "", TRUE, chunk, "prev"))
       ELSE /\ steps' = steps
            /\ Install(LoopBody(Session, "", TRUE, "", "prev"))
    /\ UNCHANGED << nickname, channel, term, link, pc, origin, entered, routed, paged, resources >>

\* The keys of the model that arrive together with inbound bytes.
BothKeys == { "ALT_j" }

\* An iteration in which select() reports both: the key is handled first.
BothIter ==
    /\ pc = "loop" /\ running
    /\ steps < MaxSteps
    /\ steps' = steps + 1
    /\ \E key \in BothKeys :
           \E chunk \in (IF link = "up" THEN ServerChunks ELSE {""}),
              nb \in (IF key = "ENTER" THEN Neighbours ELSE {"prev"}) :
               Install(LoopBody(Session, key, TRUE, chunk, nb))
    /\ UNCHANGED << nickname, channel, term, link, pc, origin, entered, routed, paged, resources >>

\* The peer closes the connection, or the network fails.
LinkDown ==
    /\ pc = "loop" /\ link # "down"
    /\ link' = "down"
    /\ UNCHANGED << buffers, active_buffer, state, recv_buffer, nickname, channel,
                    out, input_buffer, running, term, pc, pass, accum, fed,
                    decoded, origin, steps, eof, failed, entered, routed, paged, resources >>

\* while (running) ends: tui_run returns, main tears the session down.
Exit ==
    /\ pc = "loop" /\ ~running
    /\ pc' = "exited"
    /\ Install(tui_destroy(tui_refresh_main_buffer(Session)))
    /\ resources' = irc_disconnect(resources)
    /\ UNCHANGED << nickname, channel, term, link, origin, entered, routed, paged, steps >>

\* The live session: connection, inbound traffic, entered lines, navigation.
Next ==
    \/ Connect
    \/ ConnectFails
    \/ KeyIter
    \/ EnterLine
    \/ SockIter
    \/ BothIter

Spec == Init /\ [][Next]_vars

-----------------------------------------------------------------------------
(* Iterations of tui_run's loop over a given alphabet, with their history.  *)

\* The next state holds the session s, and routed the trace of its last pass.
InstallRouted(s) == Install(s) /\ routed' = s.trace

\* The next state holds the session done, reached by Enter from the session
\* typed, in which text had been typed; entered records the line's effect.
InstallEntered(text, typed, done) ==
    /\ Install(done)
    /\ entered' = [ text |-> text,
                    sent |-> SubSeq(done.out, Len(typed.out) + 1, Len(done.out)),
                    store_before  |-> typed.buffers,
                    store_after   |-> done.buffers,
                    active_before |-> typed.active_buffer,
                    active_after  |-> done.active_buffer,
                    state_before  |-> typed.state,
                    state_after   |-> done.state,
                    input_before  |-> typed.input_buffer,
                    input_after   |-> done.input_buffer ]

\* An iteration in which only the socket is readable and the read returns one
\* of chunks; routed records the store around each line of the pass.
SockStep(chunks, bound) ==
    /\ pc = "loop" /\ running /\ link # "down"
    /\ steps < bound
    /\ steps' = steps + 1
    /\ \E chunk \in chunks :
           InstallRouted(LoopBody(Session, "", TRUE, chunk, "prev"))
    /\ UNCHANGED << nickname, channel, term, link, pc, origin, entered, paged, resources >>

\* The user types one of lines and presses Enter, one iteration per key;
\* entered records the line and what Enter did.
LineStep(lines, bound) ==
    /\ pc = "loop" /\ running /\ link # "down"
    /\ steps < bound
    /\ steps' = steps + 1
    /\ \E text \in lines :
           \E nb \in (IF HasPrefix(text, "/part") THEN Neighbours ELSE {"prev"}) :
               InstallEntered(text, TypeKeys(Session, text, nb),
                   LoopBody(TypeKeys(Session, text, nb), "ENTER", FALSE, "", nb))
    /\ UNCHANGED << nickname, channel, term, link, pc, origin, routed, paged, resources >>

\* The next state holds the session t, reached from the session s by a page
\* key; paged records the key and the active buffer before and after it.
InstallPaged(key, s, t) ==
    /\ Install(t)
    /\ paged' = [ key    |-> key,
                  before |-> s.buffers[s.active_buffer],
                  after  |-> t.buffers[t.active_buffer] ]

\* An iteration in which a page key is ready, and the socket is not.
PageStep(keys) ==
    /\ pc = "loop" /\ running /\ link # "down"
    /\ \E key \in keys :
           InstallPaged(key, Session, LoopBody(Session, key, FALSE, "", "prev"))
    /\ UNCHANGED << nickname, channel, term, link, pc, origin, entered, routed, steps, resources >>

\* An iteration in which only standard input is ready, holding one of keys.
KeyStep(keys) ==
    /\ pc = "loop" /\ running /\ link # "down"
    /\ \E key \in keys : Install(LoopBody(Session, key, FALSE, "", "prev"))
    /\ UNCHANGED << nickname, channel, term, link, pc, origin, entered, routed, paged, resources, steps >>

-----------------------------------------------------------------------------
(* The session's life: traffic, a transport that fails, the end of the loop. *)

\* Inputs the environment produces in the life of a session.
MaxLife == 3

LifeChunks ==
    { ":irc.example NOTICE * :hi\r\n",
      ":irc.example 001 chatter_user :Welcome\r\n",
      "PING :abc\r\n" }

LifeLines == { "hello", "/join #x", "/quit" }

LifeKeys == { "CTRL_C", "ALT_j" }

LifeSock == SockStep(LifeChunks, MaxLife)

LifeLine == LineStep(LifeLines, MaxLife)

LifeKey == KeyStep(LifeKeys)

\* Writes begin to fail (the peer reset the connection, the route is gone)
\* while what the peer sent before can still be read.
LinkCloses ==
    /\ pc = "loop" /\ link = "up"
    /\ link' = "closing"
    /\ UNCHANGED << buffers, active_buffer, state, recv_buffer, nickname, channel,
                    out, input_buffer, running, term, pc, pass, accum, fed,
                    decoded, origin, steps, eof, failed, entered, routed, paged, resources >>

\* The transport is down: select() reports the socket readable in every
\* iteration, and the read returns <= 0; a key may be ready as well.
ReadFails ==
    /\ pc = "loop" /\ running /\ link = "down"
    /\ \E key \in {"", "ENTER", "x"} : Install(LoopBody(Session, key, TRUE, "", "prev"))
    /\ UNCHANGED << nickname, channel, term, link, pc, origin, entered, routed, paged, resources, steps >>

LifeNext ==
    \/ Connect
    \/ ConnectFails
    \/ LifeSock
    \/ LifeLine
    \/ LifeKey
    \/ LinkCloses
    \/ LinkDown
    \/ ReadFails
    \/ Exit

SpecLife == Init /\ [][LifeNext]_vars

-----------------------------------------------------------------------------
(* Routing: a connected session fed the messages irc_process_buffer routes. *)

\* Reads the session takes.
MaxRoute == 3

RouteChunks ==
    { ":irc.example NOTICE * :hi\r\n",
      ":bob!u@h PRIVMSG #chatter :hi\r\n",
      ":bob!u@h PRIVMSG &local :hi\r\n",
      ":bob!u@h PRIVMSG chatter_user :yo\r\n",
      ":status!u@h PRIVMSG chatter_user :yo\r\n",
      ":bob!u@h PRIVMSG alice :psst\r\n",
      ":chatter_user!u@h JOIN #chatter\r\n",
      ":chatter_user!u@h PART #chatter\r\n",
      ":bob!u@h PART #chatter :bye\r\n",
      "PING :a\r\n:bob!u@h PRIVMSG #chatter :hi\r\n" }

RouteSock == SockStep(RouteChunks, MaxRoute)

RouteNext ==
    \/ Connect
    \/ RouteSock

SpecRoute == Init /\ [][RouteNext]_vars

-----------------------------------------------------------------------------
(* Commands: /part typed in a session that holds a channel and a private   *)
(* conversation.                                                           *)

\* Iterations that read or take a line.
MaxCmd == 3

CmdChunks ==
    { ":chatter_user!u@h JOIN #chatter\r\n",
      ":bob!u@h PRIVMSG chatter_user :yo\r\n" }

CmdLines ==
    { "/part bye  bye", "/part #other see you", "/part bob", "/part status later" }

CmdKeys == { "ALT_j" }

CmdSock == SockStep(CmdChunks, MaxCmd)

CmdLine == LineStep(CmdLines, MaxCmd)

CmdKey == KeyStep(CmdKeys)

CmdNext ==
    \/ Connect
    \/ CmdSock
    \/ CmdLine
    \/ CmdKey

SpecCmd == Init /\ [][CmdNext]_vars

-----------------------------------------------------------------------------
(* The command interpreter: lines that begin with one slash, entered in a  *)
(* session that may have joined a channel and had its nickname changed by  *)
(* the server.                                                             *)

\* Iterations that read or take a line.
MaxInput == 3

InputChunks ==
    { ":chatter_user!u@h JOIN #chatter\r\n",
      ":chatter_user!u@h NICK :newnick\r\n" }

InputLines ==
    { "/nick newnick", "/nick", "/join", "/join #x", "/JOIN #x",
      "/whois bob", "/part" }

InputSock == SockStep(InputChunks, MaxInput)

InputLine == LineStep(InputLines, MaxInput)

InputNext ==
    \/ Connect
    \/ InputSock
    \/ InputLine

SpecInput == Init /\ [][InputNext]_vars

-----------------------------------------------------------------------------
(* Text: lines that are not commands, entered in the "status" buffer, in a *)
(* channel buffer and in a private conversation.                           *)

\* Iterations that read or take a line.
MaxText == 3

TextChunks ==
    { ":chatter_user!u@h JOIN #chatter\r\n",
      ":bob!u@h PRIVMSG chatter_user :yo\r\n" }

TextLines == { "hello there", "//me waves", "" }

TextKeys == { "ALT_j" }

TextSock == SockStep(TextChunks, MaxText)

TextLine == LineStep(TextLines, MaxText)

TextKey == KeyStep(TextKeys)

TextNext ==
    \/ Connect
    \/ TextSock
    \/ TextLine
    \/ TextKey

SpecText == Init /\ [][TextNext]_vars

-----------------------------------------------------------------------------
(* Scrolling: a terminal small enough for a few lines to fill the window,  *)
(* and narrow enough for some of them to wrap.                             *)

\* Reads the session takes.
MaxAppends == 3

\* A terminal of 6 rows of 40 columns: the main window has 2 rows of text
\* of 22 columns.
ScrollTerms == { [height |-> 6, width |-> 40] }

ScrollChunks ==
    { ":bob!u@h PRIVMSG #chatter :hi\r\n",
      ":irc.example NOTICE * :hi\r\n" }

PageKeys == { "PPAGE", "NPAGE", "SPPAGE", "SNPAGE" }

\* main() up to irc_connect, on that terminal.
ScrollInit ==
    /\ buffers = buffer_list_init.buffers
    /\ active_buffer = buffer_list_init.active_buffer
    /\ state = "DISCONNECTED"
    /\ recv_buffer = ""
    /\ nickname = DefaultNick
    /\ channel = DefaultChannel
    /\ out = << >>
    /\ input_buffer = ""
    /\ running = TRUE
    /\ term \in ScrollTerms
    /\ link = "up"
    /\ pc = "start"
    /\ pass = << >>
    /\ accum = ""
    /\ fed = ""
    /\ decoded = << >>
    /\ origin = [ out |-> << >> ]
    /\ steps = 0
    /\ eof = FALSE
    /\ failed = 0
    /\ entered = NoLine
    /\ routed = << >>
    /\ paged = NoPage
    /\ resources = NoResources

ScrollSock == SockStep(ScrollChunks, MaxAppends)

ScrollPage == PageStep(PageKeys)

ScrollNext ==
    \/ Connect
    \/ ScrollSock
    \/ ScrollPage

SpecScroll == ScrollInit /\ [][ScrollNext]_vars

-----------------------------------------------------------------------------
(* The engine alone: irc_recv and irc_process_buffer driven chunk by chunk *)
(* from the sessions the program is in when bytes arrive.                  *)

\* The session once irc_connect has returned and tui_run drawn the screen.
Connected0 ==
    tui_refresh_main_buffer(
        [ buffers |-> buffer_list_init.buffers,
          active_buffer |-> buffer_list_init.active_buffer,
          state |-> "CONNECTED", recv_buffer |-> "", out |-> << >>,
          running |-> TRUE, input_buffer |-> "", needs_refresh |-> FALSE,
          pass |-> << >>, accum |-> "", fed |-> "", decoded |-> << >>,
          eof |-> FALSE, failed |-> 0, trace |-> << >> ])

\* After the server's first bytes: NICK and USER are out.
Registering0 == LoopBody(Connected0, "", TRUE, ":irc.example NOTICE * :hi\r\n", "prev")

\* The same, the read having ended in the middle of the next line.
Midline0 == LoopBody(Connected0, "", TRUE, ":irc.example NOTICE * :hi\r\nPING", "prev")

\* After the welcome: JOIN is out.
Registered0 ==
    LoopBody(Registering0, "", TRUE, ":irc.example 001 chatter_user :Welcome\r\n", "prev")

FrameStarts == { Connected0, Registering0, Midline0, Registered0 }

\* What a read may return: whole lines, pieces of lines, pieces of CRLF.
Fragments ==
    { "PING :x",
      "yz\r\nPING :q\r\n",
      "\r",
      "\n",
      "a\nb",
      "PING :k\r\n:s 001 n :w\r\nPI",
      ":bob!b@h PRIVMSG #c :hi\r" }

FrameInit ==
    /\ nickname = DefaultNick
    /\ channel = DefaultChannel
    /\ term \in TermSizes
    /\ link = "up"
    /\ pc = "loop"
    /\ steps = 0
    /\ \E s \in FrameStarts :
          /\ buffers = s.buffers
          /\ active_buffer = s.active_buffer
          /\ state = s.state
          /\ recv_buffer = s.recv_buffer
          /\ out = s.out
          /\ running = s.running
          /\ input_buffer = s.input_buffer
          /\ pass = s.pass
          /\ accum = s.accum
          /\ fed = ""
          /\ decoded = << >>
          /\ eof = s.eof
          /\ failed = s.failed
          /\ entered = NoLine
          /\ routed = << >>
          /\ paged = NoPage
          /\ resources = irc_connect_ok.resources
          /\ origin = [s EXCEPT !.fed = "", !.decoded = << >>]

\* A read returns chunk; irc_recv stores it and irc_process_buffer runs.
FrameFeed ==
    /\ steps < MaxChunks
    /\ steps' = steps + 1
    /\ \E chunk \in Fragments :
           Install(irc_process_buffer(irc_recv(Session, chunk)))
    /\ UNCHANGED << nickname, channel, term, link, pc, origin, entered, routed, paged, resources >>

FrameNext == FrameFeed

SpecFrame == FrameInit /\ [][FrameNext]_vars

-----------------------------------------------------------------------------
(* Vocabulary of the properties: the wire format as the specification      *)
(* reads it (section 4.2), independent of irc_process_buffer's parsing.     *)

\* The session is live: the buffer store exists and has not been torn down.
Live == pc \in {"start", "loop"}

\* d is among the writes the transport has accepted.
Written(d) == \E i \in 1..Len(out) : out[i] = d

\* The writes the transport has accepted since the session was at origin.
Replies == SubSeq(out, Len(origin.out) + 1, Len(out))

\* What follows the first space-delimited token of a string.
AfterToken(str) ==
    LET r  == SkipSpaces(str)
        sp == strchr(r, " ")
    IN  IF sp = 0 THEN "" ELSE SkipSpaces(Drop(r, sp))

\* A line's text after its optional ":prefix".
Unprefixed(line) ==
    IF Len(line) > 0 /\ At(line, 1) = ":" THEN AfterToken(line) ELSE SkipSpaces(line)

\* The command of a line.
WireCommand(line) ==
    LET toks == Tokens(Unprefixed(line))
    IN  IF Len(toks) = 0 THEN "" ELSE toks[1]

\* The trailing parameter of a line when it is the first, else the first.
WireParam(line) ==
    LET rest == AfterToken(Unprefixed(line))
    IN  IF Len(rest) = 0 THEN ""
        ELSE IF At(rest, 1) = ":" THEN Drop(rest, 1)
        ELSE Tokens(rest)[1]

UpperCase == "ABCDEFGHIJKLMNOPQRSTUVWXYZ"

LowerCase == "abcdefghijklmnopqrstuvwxyz"

\* A name with its ASCII letters in lower case.
RECURSIVE FoldCase(_)
FoldCase(str) ==
    IF Len(str) = 0 THEN ""
    ELSE LET c == At(str, 1)
             u == strchr(UpperCase, c)
         IN  (IF u > 0 THEN At(LowerCase, u) ELSE c) \o FoldCase(Drop(str, 1))

\* A channel name: # or & in front.
IsChannelName(name) == Len(name) > 0 /\ At(name, 1) \in {"#", "&"}

\* Two buffer names the specification takes for the same name.
NamesCollide(a, b) ==
    IF IsChannelName(a) /\ IsChannelName(b) THEN FoldCase(a) = FoldCase(b) ELSE a = b

\* The first n lines of a pass, each with its CRLF again, in order.
RECURSIVE Reframe(_, _)
Reframe(p, n) == IF n = 0 THEN "" ELSE Reframe(p, n - 1) \o p[n].line \o CRLF

\* Where the last CRLF of a byte string starts, 0 when it has none.
LastCRLF(b) ==
    LET I == { i \in 1..(Len(b) - 1) : SubSeq(b, i, i + 1) = CRLF }
    IN  IF I = {} THEN 0 ELSE CHOOSE i \in I : \A j \in I : j <= i

-----------------------------------------------------------------------------
(* Properties of the buffer store, under Spec.                             *)

\* C1: in every state of a live session the buffer store holds a buffer named
\* "status"; nothing removes it, "/part status" included.
C1_StatusPresent ==
    Live => \E i \in 1..Len(buffers) : buffers[i].name = "status"

\* C1 happens: "/part status" was entered (its PART line went out) and the
\* "status" buffer is still there.
C1_PartStatusRefused ==
    /\ pc = "loop"
    /\ Written("PART status :\r\n")
    /\ \E i \in 1..Len(buffers) : buffers[i].name = "status"

\* C2: in every state of a live session exactly one buffer has its active
\* flag set, and it is the buffer active_buffer designates.
C2_OneActive ==
    Live => /\ active_buffer \in 1..Len(buffers)
            /\ \A i \in 1..Len(buffers) : (buffers[i].active = 1) <=> (i = active_buffer)

\* C2 happens: /part removed the active channel buffer while another buffer
\* than "status" existed, and the selection moved to that neighbour.
C2_SelectionMovedByPart ==
    /\ pc = "loop"
    /\ Written("PART #chatter :\r\n")
    /\ get_buffer_by_name(buffers, "#chatter") = 0
    /\ active_buffer > 1
    /\ buffers[active_buffer].active = 1

\* C3: buffer names are unique: no two buffers have names that collide,
\* channel names compared without regard to case and the others exactly.
C3_NamesUnique ==
    Live => \A i, j \in 1..Len(buffers) :
                i # j => ~NamesCollide(buffers[i].name, buffers[j].name)

-----------------------------------------------------------------------------
(* Properties of the session engine, under Spec.                           *)

\* C4: for every inbound line "PING :X" the next write to the transport is
\* exactly "PONG :X\r\n", nothing else before it, and the PONGs of a pass go
\* out in the order of their PINGs.
C4_PongNext ==
    /\ \A i \in 1..Len(pass) :
           HasPrefix(pass[i].line, "PING :") =>
               /\ pass[i].at < Len(out)
               /\ out[pass[i].at + 1] = "PONG :" \o Drop(pass[i].line, 6) \o CRLF
    /\ \A i, j \in 1..Len(pass) : i < j => pass[i].at <= pass[j].at
    /\ \A i, j \in 1..Len(pass) :
           i < j /\ HasPrefix(pass[i].line, "PING :") => pass[i].at < pass[j].at

\* C4 happens: one pass took a PING, a welcome that sent JOIN, and a second
\* PING; both PONGs went out, the JOIN between them.
C4_TwoPingsAroundJoin ==
    /\ Len(pass) = 3
    /\ pass[1].line = "PING :x" /\ pass[1].sent = << "PONG :x\r\n" >>
    /\ pass[2].sent = << "JOIN #chatter\r\n" >>
    /\ pass[3].line = "PING :q" /\ pass[3].sent = << "PONG :q\r\n" >>

\* C5: every inbound line whose command is PING is answered, in every
\* registration state, with a PONG carrying its trailing or first parameter,
\* whether or not the line has a prefix or its parameter a colon.
C5_EveryPingAnswered ==
    \A i \in 1..Len(pass) :
        WireCommand(pass[i].line) = "PING" =>
            pass[i].sent = << "PONG :" \o WireParam(pass[i].line) \o CRLF >>

\* C9: in state REGISTERING a line whose command is 001 or 376 moves the state
\* to REGISTERED and sends "JOIN <channel>\r\n", nothing else; with the
\* defaults and ":irc.example 001 chatter_user :Welcome" that is
\* "JOIN #chatter\r\n".
C9_WelcomeJoins ==
    \A i \in 1..Len(pass) :
        pass[i].before = "REGISTERING" =>
            /\ WireCommand(pass[i].line) \in {"001", "376"} =>
                   /\ pass[i].after = "REGISTERED"
                   /\ pass[i].sent = << "JOIN " \o channel \o CRLF >>
            /\ pass[i].line = ":irc.example 001 chatter_user :Welcome" =>
                   pass[i].sent = << "JOIN #chatter\r\n" >>

\* C9 happens: the welcome arrived in state REGISTERING.
C9_WelcomeWhileRegistering ==
    \E i \in 1..Len(pass) :
        /\ pass[i].before = "REGISTERING"
        /\ pass[i].line = ":irc.example 001 chatter_user :Welcome"
        /\ pass[i].after = "REGISTERED"
        /\ state = "REGISTERED"

\* C10: after a successful connect the client registers unprompted: once the
\* loop has handled an event, with no byte received from the server yet, NICK
\* and USER have been written, first of all writes, and the state is
\* REGISTERING.
C10_RegistersUnprompted ==
    (pc = "loop" /\ steps > 0 /\ fed = "") =>
        /\ state = "REGISTERING"
        /\ Len(out) >= 2
        /\ out[1] = "NICK " \o nickname \o CRLF
        /\ out[2] = "USER " \o username \o " 0 * :" \o realname \o CRLF

-----------------------------------------------------------------------------
(* Properties of the framing, under SpecFrame.                             *)

C7_RoundTrip == Reframe(pass, Len(pass)) \o recv_buffer = accum

\* C7 happens: a pass consumed two lines and left part of a third.
C7_TwoLinesAndResidue ==
    /\ steps > 0
    /\ Len(pass) >= 2
    /\ Len(recv_buffer) > 0

\* C8: a pass consumes the bytes up to and including the last CRLF and keeps
\* what follows it; bytes without a CRLF, a lone LF or a lone CR among them,
\* give no line and are kept whole.
C8_LastCRLFSplits ==
    LET e == LastCRLF(accum)
    IN  /\ recv_buffer = (IF e = 0 THEN accum ELSE Drop(accum, e + 1))
        /\ (e = 0) <=> (pass = << >>)
        /\ strstr(recv_buffer, CRLF) = 0

\* C8 happens: the buffer held a lone LF, or a lone CR, and no CRLF: no line
\* was decoded and every byte was kept.
C8_LoneTerminatorKept ==
    /\ steps > 0
    /\ strchr(accum, "\n") > 0 /\ strchr(accum, "\r") > 0
    /\ strstr(accum, CRLF) = 0
    /\ pass = << >>
    /\ recv_buffer = accum

-----------------------------------------------------------------------------
(* Properties of a failing transport, under SpecLife.                      *)

\* C11: when a read reports EOF or an error, in whatever registration state,
\* the state becomes DISCONNECTED and the loop is told to stop; from then on
\* no line is parsed and no write is made or tried.
C11_ReadFailureEnds ==
    [][ /\ eof' => (state' = "DISCONNECTED" /\ ~running')
        /\ eof => (out' = out /\ decoded' = decoded /\ failed' = failed) ]_vars

\* C11 happens: the session was registered (JOIN had gone out), a read
\* failed, and main has left the loop.
C11_ClosedAfterRegistering ==
    /\ eof
    /\ pc = "exited"
    /\ Written("JOIN #chatter\r\n")

\* C12: a write that fails is fatal to the session: once a write has
\* returned < 0 the state is DISCONNECTED.
C12_SendFailureFatal == failed > 0 => state = "DISCONNECTED"

-----------------------------------------------------------------------------
(* Properties of the routing of inbound lines, under SpecRoute.  routed    *)
(* holds, for each line of the last pass of irc_process_buffer, the buffer *)
(* store and the selection before and after the line.                      *)

\* The lines of the buffer of that name in a store, none when it is absent.
LinesOf(bufs, name) ==
    LET i == get_buffer_by_name(bufs, name)
    IN  IF i = 0 THEN << >> ELSE bufs[i].lines

\* The lines a routed line added to the buffer of that name.
Gained(r, name) ==
    SubSeq(LinesOf(r.store_after, name),
           Len(LinesOf(r.store_before, name)) + 1, Len(LinesOf(r.store_after, name)))

\* The first parameter of a line (its target), and its trailing text.
WireTarget(line) ==
    LET toks == Tokens(AfterToken(Unprefixed(line)))
    IN  IF Len(toks) = 0 THEN "" ELSE toks[1]

WireText(line) ==
    LET rest == AfterToken(Unprefixed(line))
        c    == strchr(rest, ":")
    IN  IF c = 0 THEN "" ELSE Drop(rest, c)

\* The nick of a line's prefix: what precedes '!', "" without a prefix.
WireNick(line) ==
    IF Len(line) > 0 /\ At(line, 1) = ":"
    THEN LET p == Take(Drop(line, 1), strchr(Drop(line, 1), " ") - 1)
         IN  IF strchr(p, "!") > 0 THEN Take(p, strchr(p, "!") - 1) ELSE p
    ELSE ""

\* C13: every complete line is appended verbatim to "status" exactly once,
\* as the first thing the line does and in arrival order; a PRIVMSG to a
\* channel adds that raw line to "status" and nothing else.
C13_RawTraceOnce ==
    \A k \in 1..Len(routed) :
        LET r      == routed[k]
            before == LinesOf(r.store_before, "status")
            after  == LinesOf(r.store_after, "status")
            gained == Gained(r, "status")
        IN  /\ SubSeq(after, 1, Len(before)) = before
            /\ Len(gained) >= 1
            /\ gained[1] = r.line
            /\ \A j \in 2..Len(gained) : gained[j] # r.line
            /\ k > 1 => r.store_before = routed[k - 1].store_after
            /\ (WireCommand(r.line) = "PRIVMSG" /\ IsChannelName(WireTarget(r.line)))
                   => gained = << r.line >>

\* C13 happens: a pass of two lines, the second a PRIVMSG to a channel that
\* went to the channel's buffer.
C13_PingThenChannelMessage ==
    /\ Len(routed) = 2
    /\ routed[1].line = "PING :a"
    /\ routed[2].line = ":bob!u@h PRIVMSG #chatter :hi"
    /\ Gained(routed[2], "#chatter") = << "<bob> hi" >>

\* A line whose routing target is "status" itself: a NOTICE, or a PRIVMSG
\* whose target is neither a channel nor our nickname.
RoutedToStatus(line) ==
    \/ WireCommand(line) = "NOTICE"
    \/ /\ WireCommand(line) = "PRIVMSG"
       /\ ~IsChannelName(WireTarget(line))
       /\ WireTarget(line) # nickname

\* C14: a line whose routing target is "status" adds exactly one line to
\* "status".
C14_OneLineWhenStatusIsTarget ==
    \A k \in 1..Len(routed) :
        RoutedToStatus(routed[k].line) => Len(Gained(routed[k], "status")) = 1

\* The last line of the buffer of that name in a store, "" when it has none.
LastLineOf(bufs, name) ==
    IF Len(LinesOf(bufs, name)) = 0 THEN ""
    ELSE LinesOf(bufs, name)[Len(LinesOf(bufs, name))]

\* C15: after a PRIVMSG from nick to a target that begins with # or &, a
\* buffer named target exists and its last line is "<nick> text".
C15_ChannelMessageLands ==
    \A k \in 1..Len(routed) :
        LET line == routed[k].line
        IN  (/\ WireCommand(line) = "PRIVMSG"
             /\ WireNick(line) # ""
             /\ IsChannelName(WireTarget(line)))
            => /\ get_buffer_by_name(routed[k].store_after, WireTarget(line)) # 0
               /\ LastLineOf(routed[k].store_after, WireTarget(line))
                      = "<" \o WireNick(line) \o "> " \o WireText(line)

\* C16: after a PRIVMSG to our nickname from a sender S, a buffer named S
\* exists and its last line is "<S> text".
C16_QueryLandsAtSender ==
    \A k \in 1..Len(routed) :
        LET line == routed[k].line
        IN  (/\ WireCommand(line) = "PRIVMSG"
             /\ WireNick(line) # ""
             /\ WireTarget(line) = nickname)
            => /\ get_buffer_by_name(routed[k].store_after, WireNick(line)) # 0
               /\ LastLineOf(routed[k].store_after, WireNick(line))
                      = "<" \o WireNick(line) \o "> " \o WireText(line)

\* C17: after a JOIN whose sender is our nickname, the channel's buffer
\* exists, is the active buffer, whether or not it existed before, and its
\* last line is "<our-nick> has joined <channel>".
C17_OwnJoinActivates ==
    \A k \in 1..Len(routed) :
        LET line == routed[k].line
            chan == WireParam(line)
        IN  (WireCommand(line) = "JOIN" /\ WireNick(line) = nickname)
            => /\ get_buffer_by_name(routed[k].store_after, chan) # 0
               /\ routed[k].active_after = get_buffer_by_name(routed[k].store_after, chan)
               /\ LastLineOf(routed[k].store_after, chan)
                      = nickname \o " has joined " \o chan

\* C18: a PART of a channel that has a buffer removes the buffer, after a
\* confirmation in "status", when the sender is our nickname; from any
\* other sender it adds a leave notice to the channel's buffer, which stays.
C18_PartRouted ==
    \A k \in 1..Len(routed) :
        LET line == routed[k].line
            chan == WireTarget(line)
        IN  (/\ WireCommand(line) = "PART"
             /\ get_buffer_by_name(routed[k].store_before, chan) # 0)
            => IF WireNick(line) = nickname
               THEN /\ get_buffer_by_name(routed[k].store_after, chan) = 0
                    /\ Len(Gained(routed[k], "status")) >= 2
               ELSE /\ get_buffer_by_name(routed[k].store_after, chan) # 0
                    /\ Len(Gained(routed[k], chan)) >= 1

-----------------------------------------------------------------------------
(* Properties of /part, under SpecCmd.  entered holds the last line the    *)
(* user entered, the writes it caused, and the buffer store and the        *)
(* selection before and after it.                                          *)

\* The words of the entered line after its command word.
EnteredWords == Tokens(AfterToken(entered.text))

\* The words from index from on, joined by single spaces.
RECURSIVE JoinWords(_, _)
JoinWords(words, from) ==
    IF from > Len(words) THEN ""
    ELSE IF from = Len(words) THEN words[from]
    ELSE words[from] \o " " \o JoinWords(words, from + 1)

\* The entered line is /part with at least one word.
EnteredPart == HasPrefix(entered.text, "/part ") /\ Len(EnteredWords) > 0

\* The name of the buffer that was active when the line was entered.
ActiveBefore == entered.store_before[entered.active_before].name

\* C19: /part w1 w2 ... in an active channel buffer C, w1 not a channel,
\* writes exactly "PART C :w1 w2 ...", after which C is out of the store and
\* the active buffer is one of the store: a neighbour of C.
C19_PartActiveChannel ==
    (/\ EnteredPart
     /\ IsChannelName(ActiveBefore)
     /\ ~IsChannelName(EnteredWords[1]))
    => /\ entered.sent = << "PART " \o ActiveBefore \o " :"
                               \o JoinWords(EnteredWords, 1) \o CRLF >>
       /\ get_buffer_by_name(entered.store_after, ActiveBefore) = 0
       /\ entered.active_after \in 1..Len(entered.store_after)
       /\ entered.store_after[entered.active_after].name
             \in { entered.store_before[PrevOf(entered.store_before, entered.active_before)].name,
                   entered.store_before[NextOf(entered.store_before, entered.active_before)].name }

\* C20: /part X rest takes X for the channel exactly when X begins with #
\* or &: then "PART X :rest" is written, whether or not a buffer X exists;
\* otherwise nothing written parts X.
C20_ChannelByPrefix ==
    EnteredPart
    => IF IsChannelName(EnteredWords[1])
       THEN entered.sent = << "PART " \o EnteredWords[1] \o " :"
                                 \o JoinWords(EnteredWords, 2) \o CRLF >>
       ELSE \A i \in 1..Len(entered.sent) :
                ~(WireCommand(entered.sent[i]) = "PART"
                  /\ WireTarget(entered.sent[i]) = EnteredWords[1])

-----------------------------------------------------------------------------
(* Properties of the command interpreter, under SpecInput and SpecLife.    *)

\* The command word of the entered line, without its slash.
EnteredCommand ==
    LET toks == Tokens(Drop(entered.text, 1))
    IN  IF HasPrefix(entered.text, "/") /\ Len(toks) > 0 THEN toks[1] ELSE ""

\* C21: /nick N writes "NICK N" and leaves the local nickname as it is; an
\* inbound NICK whose prefix is our nickname makes its parameter the local
\* nickname.
C21_NickOnConfirmation ==
    [][ /\ (entered' # entered /\ HasPrefix(entered'.text, "/nick "))
            => /\ entered'.sent = << "NICK " \o Tokens(AfterToken(entered'.text))[1] \o CRLF >>
               /\ nickname' = nickname
        /\ \A k \in 1..Len(routed') :
              (/\ fed' # fed
               /\ WireCommand(routed'[k].line) = "NICK"
               /\ WireNick(routed'[k].line) = nickname)
              => nickname' = WireParam(routed'[k].line) ]_vars

\* C22: /quit, with or without a reason, writes "QUIT :<reason>" and stops
\* the loop.
C22_QuitSendsQuit ==
    EnteredCommand = "quit"
    => /\ entered.sent = << "QUIT :" \o JoinWords(EnteredWords, 1) \o CRLF >>
       /\ ~running

\* The commands of the specification's table.
CommandTable == { "join", "part", "nick", "quit" }

\* The entered line is a command whose word, in any case, is not in the table.
EnteredUnknown ==
    /\ ~HasPrefix(entered.text, "//")
    /\ EnteredCommand # ""
    /\ FoldCase(EnteredCommand) \notin CommandTable

\* C23: a command word that is not in the table adds the one line "Unknown
\* command: /<name>" to "status"; nothing is written, no other buffer, the
\* selection and the registration state are as before.
C23_UnknownCommandRefused ==
    EnteredUnknown
    => /\ LinesOf(entered.store_after, "status")
             = Append(LinesOf(entered.store_before, "status"),
                      "Unknown command: /" \o EnteredCommand)
       /\ entered.sent = << >>
       /\ Len(entered.store_after) = Len(entered.store_before)
       /\ \A i \in 1..Len(entered.store_before) :
              entered.store_before[i].name # "status"
                 => entered.store_after[i] = entered.store_before[i]
       /\ entered.active_after = entered.active_before
       /\ entered.state_after = entered.state_before

\* C23 happens: /whois was entered in the active channel buffer and refused.
C23_WhoisInChannel ==
    /\ entered.text = "/whois bob"
    /\ entered.store_before[entered.active_before].name = "#chatter"
    /\ LastLineOf(buffers, "status") = "Unknown command: /whois"

\* C24: the command keyword is matched in any case: /JOIN #x, /Join #x and
\* /join #x all write "JOIN #x".
C24_KeywordAnyCase ==
    (/\ ~HasPrefix(entered.text, "//")
     /\ FoldCase(EnteredCommand) = "join"
     /\ Len(EnteredWords) > 0)
    => entered.sent = << "JOIN " \o EnteredWords[1] \o CRLF >>

\* The entered line is a command of the table without the argument it needs:
\* /join or /nick alone, /part alone in a buffer that is not a channel.
EnteredWithoutArgument ==
    /\ ~HasPrefix(entered.text, "//")
    /\ Len(EnteredWords) = 0
    /\ \/ EnteredCommand \in { "join", "nick" }
       \/ EnteredCommand = "part" /\ ~IsChannelName(ActiveBefore)

\* C25: a command without the argument it needs writes nothing and adds
\* exactly one line, its usage, to "status".
C25_UsageLine ==
    EnteredWithoutArgument
    => /\ entered.sent = << >>
       /\ Len(Gained(entered, "status")) = 1
       /\ HasPrefix(Gained(entered, "status")[1], "Usage: /" \o EnteredCommand)

-----------------------------------------------------------------------------
(* Properties of entered text, under SpecText.                             *)

\* Enter has been pressed (on a line, or on the empty input).
EnterPressed == entered.store_before # << >>

\* Every buffer but the one of that name is as it was before the line.
OthersKept(name) ==
    /\ Len(entered.store_after) = Len(entered.store_before)
    /\ \A i \in 1..Len(entered.store_before) :
           entered.store_before[i].name # name
              => entered.store_after[i] = entered.store_before[i]

\* C26: a line that begins with // is no command: its text from the second
\* slash on goes as PRIVMSG to the active buffer's name, with the local echo,
\* when that is a channel; as a raw line when it is "status"; as PRIVMSG to
\* the active buffer's name when that is a private conversation.
C26_DoubleSlashIsText ==
    (EnterPressed /\ HasPrefix(entered.text, "//"))
    => IF IsChannelName(ActiveBefore)
       THEN /\ entered.sent = << "PRIVMSG " \o ActiveBefore \o " :"
                                    \o Drop(entered.text, 1) \o CRLF >>
            /\ Gained(entered, ActiveBefore)
                  = << "<" \o nickname \o "> " \o Drop(entered.text, 1) >>
       ELSE IF ActiveBefore = "status"
       THEN entered.sent = << Drop(entered.text, 1) \o CRLF >>
       ELSE entered.sent = << "PRIVMSG " \o ActiveBefore \o " :"
                                 \o Drop(entered.text, 1) \o CRLF >>

\* C27: Enter on text T that is no command writes "PRIVMSG A :T" and adds
\* "<our-nick> T" to the active buffer A, or, when A is "status", writes T
\* and adds nothing but the echo of the write; Enter on the empty input
\* writes and adds nothing; the input buffer is empty afterwards.
C27_EnterOnText ==
    EnterPressed
    => /\ entered.input_before = entered.text
       /\ entered.input_after = ""
       /\ (Len(entered.text) = 0)
             => /\ entered.sent = << >>
                /\ entered.store_after = entered.store_before
       /\ (Len(entered.text) > 0 /\ ~HasPrefix(entered.text, "/"))
             => IF ActiveBefore = "status"
                THEN /\ entered.sent = << entered.text \o CRLF >>
                     /\ Gained(entered, "status") = << "-> " \o entered.text >>
                     /\ OthersKept("status")
                ELSE /\ entered.sent = << "PRIVMSG " \o ActiveBefore \o " :"
                                            \o entered.text \o CRLF >>
                     /\ Gained(entered, ActiveBefore)
                           = << "<" \o nickname \o "> " \o entered.text >>

\* C27 happens: text was entered in the private conversation with bob, and
\* the input is empty again.
C27_TextToBob ==
    /\ entered.text = "hello there"
    /\ ActiveBefore = "bob"
    /\ entered.sent = << "PRIVMSG bob :hello there\r\n" >>
    /\ input_buffer = ""

-----------------------------------------------------------------------------
(* Properties of the scroll state, under SpecScroll.                       *)

\* The rows a line of that length takes in a window W columns wide.
RowsOf(len, W) == (len + W - 1) \div W

\* The rows the first n lines of a buffer take.
RECURSIVE DisplayedRows(_, _, _)
DisplayedRows(lines, n, W) ==
    IF n = 0 THEN 0 ELSE DisplayedRows(lines, n - 1, W) + RowsOf(Len(lines[n]), W)

\* max_scroll = max(0, total_displayed_rows - H), for the window's text
\* width and its rows of content.
MaxScrollOf(b) ==
    LET total == DisplayedRows(b.lines, Len(b.lines), TextWidth)
        H     == WinHeight - 2
    IN  IF total - H > 0 THEN total - H ELSE 0

\* C28: every buffer's scroll_offset lies in [0, max_scroll], after every
\* append to it and every page key.
C28_OffsetInRange ==
    pc = "loop"
    => \A i \in 1..Len(buffers) :
           /\ buffers[i].scroll_offset >= 0
           /\ buffers[i].scroll_offset <= MaxScrollOf(buffers[i])

\* C29: a buffer that was at the bottom, with offset 0, when a pass began
\* has offset 0 after the iteration, however many lines the pass appended
\* to it (no page key having been pressed).
C29_BottomStaysZero ==
    Len(routed) > 0
    => \A i \in 1..Len(routed[1].store_before) :
           LET was == routed[1].store_before[i]
               now == buffers[get_buffer_by_name(buffers, was.name)]
           IN  (/\ pc = "loop"
                /\ paged = NoPage
                /\ was.at_bottom
                /\ was.scroll_offset = 0
                /\ Len(now.lines) > Len(was.lines))
               => now.scroll_offset = 0

C31_ScrolledAwayKept ==
    \A k \in 1..Len(routed) :
        \A i \in 1..Len(routed[k].store_before) :
            LET was == routed[k].store_before[i]
                now == routed[k].store_after[i]
            IN  (~was.at_bottom /\ Len(now.lines) > Len(was.lines))
                => /\ now.scroll_offset = was.scroll_offset
                   /\ ~now.at_bottom
                   /\ SubSeq(now.lines, 1, Len(was.lines)) = was.lines
                   /\ now.name = was.name

\* C31 happens: "status" had been scrolled up, away from the bottom, when a
\* line of the server was appended to it.
C31_AppendWhileScrolledUp ==
    /\ Len(routed) > 0
    /\ ~routed[1].store_before[1].at_bottom
    /\ routed[1].store_before[1].scroll_offset > 0
    /\ Len(routed[1].store_after[1].lines) > Len(routed[1].store_before[1].lines)
    /\ ~buffers[1].at_bottom

-----------------------------------------------------------------------------
(* Shutdown: a request to stop, alone or together with inbound bytes.       *)

\* Reads the session takes before the request.
MaxStop == 3

StopChunks ==
    { ":irc.example NOTICE * :hi\r\n",
      "PING :abc\r\n" }

\* The requests of the keyboard: Ctrl-C, and Enter on the line "/quit".
StopRequests == { "CTRL_C", "/quit" }

\* The session in which the request's last key is about to be read.
StopTyped(req) == IF req = "CTRL_C" THEN Session ELSE TypeKeys(Session, req, "prev")

StopKey(req) == IF req = "CTRL_C" THEN "CTRL_C" ELSE "ENTER"

StopSock == SockStep(StopChunks, MaxStop)

\* An iteration in which select() reports the request's key, and with it or
\* not the socket; entered records what the iteration did.
StopRequest ==
    /\ pc = "loop" /\ running /\ link # "down"
    /\ \E req \in StopRequests, sock \in BOOLEAN :
           \E chunk \in (IF sock THEN StopChunks ELSE {""}) :
               InstallEntered(req, StopTyped(req),
                   LoopBody(StopTyped(req), StopKey(req), sock, chunk, "prev"))
    /\ UNCHANGED << nickname, channel, term, link, pc, origin, routed, paged, resources, steps >>

\* SIGINT while select() waits: handle_sigint clears running, select() fails
\* with EINTR and the loop tests running again.
Interrupt ==
    /\ pc = "loop" /\ running
    /\ running' = FALSE
    /\ UNCHANGED << buffers, active_buffer, state, recv_buffer, nickname, channel,
                    out, input_buffer, term, link, pc, pass, accum, fed,
                    decoded, origin, steps, eof, failed, entered, routed, paged, resources >>

StopNext ==
    \/ Connect
    \/ StopSock
    \/ StopRequest
    \/ Interrupt
    \/ Exit

SpecStop == Init /\ [][StopNext]_vars

\* C32: the iteration in which the keyboard asked for shutdown reads nothing
\* more, parses nothing and emits nothing, also when the socket was reported
\* readable together with the key: no buffer gains a line and no line is
\* written to the transport.
C32_QuietAfterRequest ==
    (entered.text \in StopRequests /\ ~running)
    => /\ entered.sent = << >>
       /\ \A i \in 1..Len(entered.store_before) :
              entered.store_after[i].lines = entered.store_before[i].lines
       /\ entered.state_after = entered.state_before

-----------------------------------------------------------------------------
(* The ring of buffers.                                                     *)

\* The buffers Alt-j selects when pressed n times in the session s, in order.
RECURSIVE AltJVisits(_, _)
AltJVisits(s, n) ==
    IF n = 0 THEN << >>
    ELSE LET t == tui_handle_input(s, "ALT_j", "prev")
         IN  << t.active_buffer >> \o AltJVisits(t, n - 1)

-----------------------------------------------------------------------------
(* Lines the router has no branch for, and lines of other users.            *)

\* Reads the session takes.
MaxWire == 3

WireChunks ==
    { ":irc.example NOTICE * :hi\r\n",
      ":nospace\r\nPING :a\r\n",
      ":irc.example \r\n:bob!u@h PRIVMSG #chatter :hi\r\n",
      " \r\n:irc.example 001 chatter_user :Welcome\r\n",
      ":irc.example 002 chatter_user :Your host\r\n",
      ":bob!u@h NICK :robert\r\n",
      ":irc.example MODE #chatter +o bob\r\n",
      ":bob!u@h JOIN #chatter\r\n",
      ":chatter_user!u@h JOIN #chatter\r\n",
      ":bob!u@h PRIVMSG chatter_user :yo\r\n",
      "PING :b\r\n:irc.example 002 chatter_user :Your host\r\n:irc.exa" }

WireSock == SockStep(WireChunks, MaxWire)

WireNext ==
    \/ Connect
    \/ WireSock

SpecWire == Init /\ [][WireNext]_vars

\* A line with no command: ":prefix" with no space after it, or nothing but
\* spaces where the command should be.
Malformed(line) == WireCommand(line) = ""

\* The k-th line of the last pass did nothing but add itself to "status":
\* no other line in any buffer, no buffer made, removed or selected, no write
\* to the transport, no change of the registration state.
RawOnly(k) ==
    LET r == routed[k]
    IN  /\ Gained(r, "status") = << r.line >>
        /\ SubSeq(LinesOf(r.store_after, "status"), 1,
                  Len(LinesOf(r.store_before, "status")))
               = LinesOf(r.store_before, "status")
        /\ Len(r.store_after) = Len(r.store_before)
        /\ \A i \in 1..Len(r.store_before) :
               /\ r.store_after[i].name = r.store_before[i].name
               /\ r.store_after[i].active = r.store_before[i].active
               /\ r.store_before[i].name # "status"
                      => r.store_after[i] = r.store_before[i]
        /\ r.active_after = r.active_before
        /\ pass[k].line = r.line
        /\ pass[k].sent = << >>
        /\ pass[k].after = pass[k].before

\* C34: a malformed line is never fatal: it is added raw to "status" and
\* routed nowhere, and the lines behind it are processed as usual: the pass
\* goes on to the last complete line, and a PING behind it gets its PONG.
C34_MalformedSkipped ==
    /\ \A k \in 1..Len(routed) : Malformed(routed[k].line) => RawOnly(k)
    /\ (\E k \in 1..Len(routed) : Malformed(routed[k].line))
       => /\ running
          /\ Reframe(routed, Len(routed)) \o recv_buffer = accum
          /\ strstr(recv_buffer, CRLF) = 0
    /\ \A k \in 1..(Len(routed) - 1) :
           (Malformed(routed[k].line) /\ HasPrefix(routed[k + 1].line, "PING :"))
           => pass[k + 1].sent = << "PONG :" \o Drop(routed[k + 1].line, 6) \o CRLF >>

\* C34 happens: ":nospace" was followed in the same read by a PING, which was
\* answered.
C34_PingBehindMalformed ==
    /\ Len(routed) = 2
    /\ routed[1].line = ":nospace"
    /\ LastLineOf(routed[1].store_after, "status") = ":nospace"
    /\ routed[2].line = "PING :a"
    /\ pass[2].sent = << "PONG :a\r\n" >>
    /\ recv_buffer = ""


\* The commands the specification gives an effect to.
RoutedCommands == { "PRIVMSG", "NOTICE", "PING", "JOIN", "PART", "001", "376" }

\* C36: a well-formed line whose command is none of PRIVMSG, NOTICE, PING,
\* JOIN, PART, 001, 376 is added raw to "status" and does nothing else.
C36_OtherCommandsRawOnly ==
    \A k \in 1..Len(routed) :
        (~Malformed(routed[k].line) /\ WireCommand(routed[k].line) \notin RoutedCommands)
        => RawOnly(k)

\* C36 happens: while registering, with a channel buffer selected, the server
\* sent numeric 002.
C36_NumericWhileRegistering ==
    /\ Len(routed) = 1
    /\ routed[1].line = ":irc.example 002 chatter_user :Your host"
    /\ pass[1].before = "REGISTERING"
    /\ routed[1].active_before = 2
    /\ LastLineOf(buffers, "status") = ":irc.example 002 chatter_user :Your host"

-----------------------------------------------------------------------------
(* The outbound path, under SpecCmd.                                        *)

\* The echo of an outbound line: the line without its CRLF, behind "-> ".
EchoOf(data) == "-> " \o SubSeq(data, 1, Len(data) - 2)

\* C35: every line written to the transport ends with CRLF, and what an
\* entered line that wrote to the transport adds to "status" is the echo
\* "-> <line>" of each written line, once each and in order, and no other
\* line.
C35_OneEchoPerSend ==
    (EnterPressed /\ entered.sent # << >>)
    => /\ \A i \in 1..Len(entered.sent) :
              /\ Len(entered.sent[i]) >= 2
              /\ Drop(entered.sent[i], Len(entered.sent[i]) - 2) = CRLF
       /\ Gained(entered, "status")
              = [ i \in 1..Len(entered.sent) |-> EchoOf(entered.sent[i]) ]

-----------------------------------------------------------------------------
(* Teardown, under SpecLife.                                                *)

\* Where a release stands in the sequence of releases, 0 when it is not there.
ReleasedAt(what) ==
    LET I == { i \in 1..Len(resources.released) : resources.released[i] = what }
    IN  IF I = {} THEN 0 ELSE MinOf(I)

\* C37: whatever ended the program (/quit, Ctrl-C, the end of the transport,
\* a connect that failed after the socket or the TLS session was made), at
\* exit nothing is held any more, nothing was released twice, and the TLS
\* session was shut down before the socket was closed.
C37_ReleasedOnceInOrder ==
    pc = "exited"
    => /\ resources.held = {}
       /\ \A i, j \in 1..Len(resources.released) :
              resources.released[i] = resources.released[j] => i = j
       /\ ReleasedAt("SSL_shutdown") > 0
              => ReleasedAt("SSL_shutdown") < ReleasedAt("close")

-----------------------------------------------------------------------------
(* The receive buffer between iterations, under SpecWire.                   *)

\* C38: at the end of every iteration whose socket was readable the receive
\* buffer holds no complete line: every line the read completed has been
\* parsed, in arrival order, before the screen is drawn from the buffers.
C38_NoCompleteLineLeft ==
    (pc = "loop" /\ steps > 0)
    => /\ strstr(recv_buffer, CRLF) = 0
       /\ Reframe(routed, Len(routed)) \o recv_buffer = accum
       /\ Len(decoded) >= Len(routed)
       /\ \A k \in 1..Len(routed) :
              /\ decoded[Len(decoded) - Len(routed) + k] = routed[k].line
              /\ k > 1 => routed[k].store_before = routed[k - 1].store_after
       /\ Len(routed) > 0
              => \A i \in 1..Len(buffers) :
                     LET parsed == routed[Len(routed)].store_after[i].lines
                     IN  SubSeq(buffers[i].lines, 1, Len(parsed)) = parsed

\* C38 happens: one read brought two complete lines and the start of a
\* third; the two are parsed, in order, and only the start is kept.
C38_TwoLinesOneRead ==
    /\ pc = "loop"
    /\ accum = "PING :b\r\n:irc.example 002 chatter_user :Your host\r\n:irc.exa"
    /\ Len(routed) = 2
    /\ routed[1].line = "PING :b"
    /\ routed[2].line = ":irc.example 002 chatter_user :Your host"
    /\ recv_buffer = ":irc.exa"

-----------------------------------------------------------------------------
(* The automatic JOIN, under Spec.                                          *)

\* Where the transport took the JOIN of the configured channel.
AutoJoins == { i \in 1..Len(out) : out[i] = "JOIN " \o channel \o CRLF }

\* C39: the automatic JOIN goes out at most once in a session and never
\* before NICK and USER; a 001 or 376 that arrives in any state but
\* REGISTERING sends nothing and leaves the state as it is.
C39_JoinOnceAfterRegistration ==
    /\ Cardinality(AutoJoins) <= 1
    /\ \A i \in AutoJoins :
           \E j, k \in 1..(i - 1) :
               /\ j < k
               /\ out[j] = "NICK " \o nickname \o CRLF
               /\ HasPrefix(out[k], "USER ")
    /\ \A k \in 1..Len(pass) :
           (WireCommand(pass[k].line) \in {"001", "376"} /\ pass[k].before # "REGISTERING")
           => /\ pass[k].sent = << >>
              /\ pass[k].after = pass[k].before

\* C39 happens: a welcome arrived after the session had registered and
\* joined; still one JOIN is out.
C39_SecondWelcomeIgnored ==
    /\ Len(pass) = 1
    /\ pass[1].line = ":irc.example 001 chatter_user :Welcome"
    /\ pass[1].before = "REGISTERED"
    /\ state = "REGISTERED"
    /\ Cardinality(AutoJoins) = 1

-----------------------------------------------------------------------------
(* The selection under inbound traffic, under SpecWire.                     *)

\* The name of the selected buffer in a store, "" when none is selected.
SelectedIn(bufs, i) == IF i = 0 THEN "" ELSE bufs[i].name

\* C40: an inbound PRIVMSG (also one that makes a new buffer), a NOTICE, and
\* a JOIN by another nick leave the selection where it was; a JOIN by another
\* nick makes no buffer.
C40_InboundKeepsSelection ==
    \A k \in 1..Len(routed) :
        LET r    == routed[k]
            cmd  == WireCommand(r.line)
            join == cmd = "JOIN" /\ WireNick(r.line) # nickname
        IN  /\ (cmd \in {"PRIVMSG", "NOTICE"} \/ join)
               => /\ r.active_after = r.active_before
                  /\ SelectedIn(r.store_after, r.active_after)
                         = SelectedIn(r.store_before, r.active_before)
                  /\ \A i \in 1..Len(r.store_after) :
                         r.store_after[i].active = (IF i = r.active_before THEN 1 ELSE 0)
            /\ join => /\ Len(r.store_after) = Len(r.store_before)
                       /\ \A i \in 1..Len(r.store_before) :
                              r.store_after[i].name = r.store_before[i].name

\* C40 happens: with "#chatter" selected, a private message of bob made the
\* buffer "bob", and "#chatter" is still the selected one.
C40_QueryArrivesInBackground ==
    /\ Len(routed) = 1
    /\ routed[1].line = ":bob!u@h PRIVMSG chatter_user :yo"
    /\ Len(routed[1].store_before) = 2
    /\ Len(routed[1].store_after) = 3
    /\ buffers[3].name = "bob"
    /\ SelectedIn(buffers, active_buffer) = "#chatter"

=============================================================================
